---- MODULE Spec2Model ----
(***************************************************************************)
(* Model of the stashdb-tag-sync plugin: the three-stage reconciliation of *)
(* remote (StashDB) tags into the local Stash tag store                    *)
(* (core/tag_transfer.py) and the batch writes of stash_client.py, and of   *)
(* the StashDB client that fetches the remote tags (graphql_client.py);     *)
(* and of the scene loop of the copy-stashbox-urls plugin                   *)
(* (copyStashBoxUrls.py).                                                   *)
(*                                                                         *)
(* A Python str is a sequence of one-character strings, so that lower(),   *)
(* strip() and the code-point order used by sorted() are computed, not     *)
(* assumed.  A stash_id is an opaque atom: the code only tests it for      *)
(* truthiness and equality.                                                *)
(***************************************************************************)
EXTENDS Integers, Sequences, FiniteSets, TLC

VARIABLES
    store,                      \* the local Stash tag store: tag id -> tag (ids are 1..Len)
    tags,                       \* the remote tag list handed to transfer_tags_graphql
    ignored_aliases,            \* config.ignored_aliases
    pc,                         \* position of the run inside transfer_tags_graphql
    run,                        \* number of the current reconciliation run
    existing_tags_by_name,      \* index built by find_existing_tags_with_data
    existing_tags_by_stash_id,  \* index built by find_existing_tags_with_data
    matched_tags,               \* set of lowercased names consumed by stage 1 / stage 2
    tags_to_update,             \* list of (tag_id, merged_tag, existing_stash_ids, stash_id)
    skipped_tags,
    failed_tags,
    i,                          \* loop index of the current for loop
    new_tags,                   \* list handed to create_tags_batch
    created_tags,               \* dict {lowercase name: id} built by create_tags_batch
    updated_count,
    stats,                      \* the dictionary returned by transfer_tags_graphql
    requests,                   \* history: write requests sent to the local store, in order
    evals,                      \* history: per remote tag, what each stage decided
    read_failed,                \* history: the bulk read of this run raised
    merge_result,               \* the Tag returned by a single call of _merge_tag_data
    cache_file,                 \* StashDBClient.CACHE_FILE: absent, or {timestamp, tags}
    cache_source,               \* history: the endpoint whose fetch wrote cache_file
    clock,                      \* time.time(), in hours
    endpoint,                   \* self.endpoint of the client running query_all_tags
    use_cache,                  \* the argument of query_all_tags
    at_call,                    \* history: cache_file and clock when the call started
    page,                       \* query_all_tags: page
    attempt,                    \* _execute_query: attempt
    total_count,                \* query_all_tags: total_count
    all_tags,                   \* query_all_tags: all_tags, the list returned
    all_tag_dicts,              \* query_all_tags: all_tag_dicts
    sent,                       \* history: the requests posted by the current call
    sleeps,                     \* history: the delays slept by the current call
    processed_count,            \* SceneProcessor.processed_count
    scene_updated_count,        \* SceneProcessor.updated_count
    skipped_count,              \* SceneProcessor.skipped_count
    error_count,                \* SceneProcessor.error_count
    total_with_stashids,        \* process_all: total_with_stashids
    scene_page,                 \* process_all: page
    scenes,                     \* process_all: scenes, the page being processed
    scene_idx                   \* process_all: position of the for loop in scenes

vars == <<store, tags, ignored_aliases, pc, run, existing_tags_by_name,
          existing_tags_by_stash_id, matched_tags, tags_to_update, skipped_tags,
          failed_tags, i, new_tags, created_tags, updated_count, stats, requests,
          evals, read_failed, merge_result, cache_file, cache_source, clock,
          endpoint, use_cache, at_call, page, attempt, total_count, all_tags,
          all_tag_dicts, sent, sleeps, processed_count, scene_updated_count,
          skipped_count, error_count, total_with_stashids, scene_page, scenes,
          scene_idx>>

-----------------------------------------------------------------------------
(* Bounds *)

MaxTags == 2        \* longest remote tag list
MaxRuns == 2        \* reconciliation runs in a row over the same remote list
MaxAliases == 2     \* longest alias list handed to a single merge
MaxPages == 2       \* most pages a StashDB server answers one fetch with
MaxClock == 26      \* hours the clock runs for
MaxScenes == 3      \* largest scene count the Stash server reports
MaxPageLen == 2     \* longest page of scenes the Stash server returns

-----------------------------------------------------------------------------
(* Python str operations *)

\* ord(c) for the characters used
Code(c) ==
    CASE c = " " -> 32
      [] c = "A" -> 65
      [] c = "B" -> 66
      [] c = "a" -> 97
      [] c = "b" -> 98
      [] c = "d" -> 100

LowerChar(c) ==
    CASE c = "A" -> "a"
      [] c = "B" -> "b"
      [] OTHER -> c

\* str.lower()
Lower(s) == [k \in 1..Len(s) |-> LowerChar(s[k])]

RECURSIVE LStrip(_)
LStrip(s) == IF s # <<>> /\ Head(s) = " " THEN LStrip(Tail(s)) ELSE s

RECURSIVE RStrip(_)
RStrip(s) == IF s # <<>> /\ s[Len(s)] = " " THEN RStrip(SubSeq(s, 1, Len(s) - 1)) ELSE s

\* str.strip()
Strip(s) == RStrip(LStrip(s))

\* s < t on Python str (lexicographic by code point)
RECURSIVE StrLess(_, _)
StrLess(s, t) ==
    IF t = <<>> THEN FALSE
    ELSE IF s = <<>> THEN TRUE
    ELSE IF Code(Head(s)) < Code(Head(t)) THEN TRUE
    ELSE IF Code(Head(s)) > Code(Head(t)) THEN FALSE
    ELSE StrLess(Tail(s), Tail(t))

\* sorted(list(S)) for a set S of str
RECURSIVE SortedList(_)
SortedList(S) ==
    IF S = {} THEN <<>>
    ELSE LET m == CHOOSE x \in S : \A y \in S \ {x} : StrLess(x, y)
         IN  <<m>> \o SortedList(S \ {m})

Range(seq) == {seq[k] : k \in 1..Len(seq)}

-----------------------------------------------------------------------------
(* core/tag_transfer.py: merge, conflict detection, sync check *)

KeptAliases_KeepsIgnored(aliases, ignored_set) ==
    {Strip(a) : a \in {x \in Range(aliases) : Strip(x) # <<>>}}

\* set(a.strip() for a in aliases if a.strip() and a.strip().lower() not in ignored_set)
KeptAliases(aliases, ignored_set) ==
    {Strip(a) : a \in {x \in Range(aliases) :
                          Strip(x) # <<>> /\ Lower(Strip(x)) \notin ignored_set}}

merge_tag_data(stashdb_tag, existing_tag, ignored) ==
    LET ignored_set      == {Lower(a) : a \in Range(ignored)}
        existing_aliases == KeptAliases(existing_tag.aliases, ignored_set)
        stashdb_aliases  == KeptAliases(stashdb_tag.aliases, ignored_set)
        merged_aliases   == SortedList(existing_aliases \cup stashdb_aliases)
        existing_desc    == Strip(existing_tag.description)
        stashdb_desc     == Strip(stashdb_tag.description)
        merged_desc      == IF stashdb_desc # <<>> THEN stashdb_desc ELSE existing_desc
    IN  [name        |-> stashdb_tag.name,
         description |-> merged_desc,
         stash_id    |-> stashdb_tag.stash_id,
         aliases     |-> merged_aliases]

\* the test of one alias inside _has_alias_conflicts
AliasConflicts(alias, by_name, ignored_set) ==
    LET alias_lower == Strip(Lower(alias))
    IN  /\ alias_lower # <<>>
        /\ alias_lower \notin ignored_set
        /\ alias_lower \in DOMAIN by_name

has_alias_conflicts(merged_tag, by_name, ignored) ==
    LET ignored_set == {Lower(a) : a \in Range(ignored)}
    IN  SelectSeq(merged_tag.aliases, LAMBDA a : AliasConflicts(a, by_name, ignored_set))

is_tag_out_of_sync(stashdb_tag, existing_tag, ignored) ==
    LET merged           == merge_tag_data(stashdb_tag, existing_tag, ignored)
        existing_desc    == Strip(existing_tag.description)
        merged_desc      == Strip(merged.description)
        existing_aliases == {Strip(a) : a \in {x \in Range(existing_tag.aliases) : Strip(x) # <<>>}}
        merged_aliases   == Range(merged.aliases)
        existing_stash_id_set == {existing_tag.stash_ids[k].stash_id :
                                     k \in 1..Len(existing_tag.stash_ids)}
    IN  IF existing_desc # merged_desc THEN TRUE
        ELSE IF existing_aliases # merged_aliases THEN TRUE
        ELSE IF stashdb_tag.stash_id # "" /\ stashdb_tag.stash_id \notin existing_stash_id_set
             THEN TRUE
        ELSE FALSE

-----------------------------------------------------------------------------
(* stash_client.py: the local store as the client sees it *)

Max(S) == CHOOSE x \in S : \A y \in S : y <= x

EmptyMap == [x \in {} |-> x]

StashIdSet(stash_ids) == {stash_ids[k].stash_id : k \in 1..Len(stash_ids)}

\* find_existing_tags_with_data, tag_map: a later tag overwrites an earlier one
\* under the same lowercased name
TagMap(st) ==
    LET keys == {Lower(st[k].name) : k \in DOMAIN st}
    IN  [n \in keys |-> st[Max({k \in DOMAIN st : Lower(st[k].name) = n})]]

\* find_existing_tags_with_data, stash_id_map: one entry per truthy stash_id
StashIdMap(st) ==
    LET sids == (UNION {StashIdSet(st[k].stash_ids) : k \in DOMAIN st}) \ {""}
    IN  [s \in sids |-> st[Max({k \in DOMAIN st : s \in StashIdSet(st[k].stash_ids)})]]

\* The Stash server keeps tag names unique case-insensitively: a create or an
\* update that would break this is rejected.
NameTaken(st, id, name) ==
    \E k \in DOMAIN st : k # id /\ Lower(st[k].name) = Lower(name)

\* update_tag with a GraphQLTag built by model_construct(id=...): name is always
\* set, description and aliases only when truthy; unset fields keep their value
UpdatedTag(old, tag) ==
    [old EXCEPT !.name        = tag.name,
                !.description = IF tag.description # <<>> THEN tag.description ELSE @,
                !.aliases     = IF tag.aliases # <<>> THEN tag.aliases ELSE @]

\* create_tag with GraphQLTag(name=...), description and aliases when truthy;
\* no stash_ids are sent
CreatedTag(id, tag) ==
    [id          |-> id,
     name        |-> tag.name,
     description |-> tag.description,
     aliases     |-> tag.aliases,
     stash_ids   |-> <<>>]

StashDBEndpoint == "https://stashdb.org/graphql"

StashIdDicts_OnlyNew(existing_stash_ids, stash_id) ==
    <<[endpoint |-> StashDBEndpoint, stash_id |-> stash_id]>>

\* update_tags_batch: existing stash_ids as plain dicts plus the new one
StashIdDicts(existing_stash_ids, stash_id) ==
    Append(existing_stash_ids, [endpoint |-> StashDBEndpoint, stash_id |-> stash_id])

\* update_tags_batch: step b is sent when there is a stash_id not yet present
NeedsAttach(item) ==
    item.stash_id # "" /\ item.stash_id \notin StashIdSet(item.existing_stash_ids)

-----------------------------------------------------------------------------
(* transfer_tags_graphql: classification *)

NameMissing_EmptyOnly(tag) == tag.name = <<>>

\* if not tag.name or not tag.name.strip()   (stage 1, line 124)
NameMissing(tag) == tag.name = <<>> \/ Strip(tag.name) = <<>>

\* tag.stash_id and tag.stash_id in existing_tags_by_stash_id
MatchesByStashId(tag, by_stash_id) ==
    tag.stash_id # "" /\ tag.stash_id \in DOMAIN by_stash_id

\* tag.name and tag.name.lower() not in matched_tags
Unmatched(tag, matched) == tag.name # <<>> /\ Lower(tag.name) \notin matched

MarkMatched_Forgets(matched, tag) == matched

\* matched_tags.add(tag.name.lower())
MarkMatched(matched, tag) == matched \cup {Lower(tag.name)}

UpdateEntry(tag, existing_tag, ignored) ==
    [tag_id             |-> existing_tag.id,
     tag                |-> merge_tag_data(tag, existing_tag, ignored),
     existing_stash_ids |-> existing_tag.stash_ids,
     stash_id           |-> tag.stash_id]

Evaluate_NoConflictCheck(tag, existing_tag, by_name, ignored) ==
    IF is_tag_out_of_sync(tag, existing_tag, ignored) THEN "update" ELSE "insync"

Evaluate_AlwaysUpdates(tag, existing_tag, by_name, ignored) ==
    IF has_alias_conflicts(merge_tag_data(tag, existing_tag, ignored), by_name, ignored) # <<>>
    THEN "conflict"
    ELSE "update"

\* the body shared by stage 1 and stage 2 for a matched pair: "insync",
\* "conflict" (failed_tags += 1) or "update" (tags_to_update.append)
Evaluate(tag, existing_tag, by_name, ignored) ==
    IF is_tag_out_of_sync(tag, existing_tag, ignored)
    THEN IF has_alias_conflicts(merge_tag_data(tag, existing_tag, ignored),
                                by_name, ignored) # <<>>
         THEN "conflict"
         ELSE "update"
    ELSE "insync"

\* for tag in new_tags: if tag.name.lower() in existing_tags_by_name:
\*     new_tags.remove(tag)
\* The list iterator holds an index k into the list it is mutating.
RECURSIVE RemoveFirst(_, _)
RemoveFirst(list, x) ==
    IF list = <<>> THEN <<>>
    ELSE IF Head(list) = x THEN Tail(list)
    ELSE <<Head(list)>> \o RemoveFirst(Tail(list), x)

RECURSIVE DropExisting(_, _, _)
DropExisting(list, k, by_name) ==
    IF k > Len(list) THEN list
    ELSE IF Lower(list[k].name) \in DOMAIN by_name
         THEN DropExisting(RemoveFirst(list, list[k]), k + 1, by_name)
         ELSE DropExisting(list, k + 1, by_name)

NewTags_IgnoresMatched(tgs, matched) == SelectSeq(tgs, LAMBDA t : t.name # <<>>)

\* [tag for tag in tags if tag.name and tag.name.lower() not in matched_tags]
NewTags(tgs, matched) == SelectSeq(tgs, LAMBDA t : Unmatched(t, matched))

-----------------------------------------------------------------------------
(* Inputs *)

RemoteNames  == {<<>>, <<" ">>, <<"a">>, <<"B">>}
Descriptions == {<<>>, <<"d">>}
StashIds     == {"s1", "s2"}
AliasLists   == {<<>>, << <<"b">> >>}
IgnoreLists  == {<<>>, << <<"B">> >>}

\* A remote tag always carries its StashDB id (graphql_client.py line 226).
\* Every remote tag has the description "d": a local description of "" is out
\* of sync with it, a local description of "d" is in sync.
RemoteTag == [name : RemoteNames, description : {<<"d">>},
              stash_id : StashIds, aliases : AliasLists]

RemoteLists == UNION {[1..n -> RemoteTag] : n \in 0..MaxTags}

\* Local tags have non-blank names, unique case-insensitively (the Stash
\* server enforces both).  Tag 1 is named "a", tag 2 (when present) "b".
\* Tag 2 carries a reference to another stash-box.
LocalTagA == [id : {1}, name : {<<"a">>}, description : Descriptions,
              aliases : {<<>>},
              stash_ids : {<<>>, <<[endpoint |-> StashDBEndpoint, stash_id |-> "s1"]>>}]

LocalTagB == [id : {2}, name : {<<"b">>}, description : Descriptions,
              aliases : {<<>>},
              stash_ids : {<<[endpoint |-> "other", stash_id |-> "x9"]>>}]

LocalStores == {<<>>} \cup {<<a>> : a \in LocalTagA}
                      \cup {<<a, b>> : a \in LocalTagA, b \in LocalTagB}

NoStats == [created |-> -1, updated |-> -1, skipped |-> -1, failed |-> -1, total |-> -1]

\* the locals of transfer_tags_graphql before its first statement
RunLocals ==
    /\ pc = "start"
    /\ existing_tags_by_name = EmptyMap
    /\ existing_tags_by_stash_id = EmptyMap
    /\ matched_tags = {}
    /\ tags_to_update = <<>>
    /\ skipped_tags = 0
    /\ failed_tags = 0
    /\ i = 1
    /\ new_tags = <<>>
    /\ created_tags = EmptyMap
    /\ updated_count = 0
    /\ stats = NoStats
    /\ requests = <<>>
    /\ evals = {}
    /\ read_failed = FALSE

NoCache == [timestamp |-> -1, tags |-> <<>>]

\* no StashDBClient has been used yet and no cache file exists
NoFetch ==
    /\ cache_file = NoCache
    /\ cache_source = ""
    /\ clock = 0
    /\ endpoint = ""
    /\ use_cache = TRUE
    /\ at_call = [cache |-> NoCache, clock |-> 0]
    /\ page = 1
    /\ attempt = 0
    /\ total_count = -1
    /\ all_tags = <<>>
    /\ all_tag_dicts = <<>>
    /\ sent = <<>>
    /\ sleeps = <<>>

\* StashBoxURLProcessor.__init__ (lines 26-30) and SceneProcessor.__init__
NoProcessor ==
    /\ processed_count = 0
    /\ scene_updated_count = 0
    /\ skipped_count = 0
    /\ error_count = 0
    /\ total_with_stashids = 0
    /\ scene_page = 1
    /\ scenes = <<>>
    /\ scene_idx = 1

NoMerge == [name |-> <<>>, description |-> <<>>, stash_id |-> "", aliases |-> <<>>]

Init ==
    /\ store \in LocalStores
    /\ tags \in RemoteLists
    /\ ignored_aliases \in IgnoreLists
    /\ run = 1
    /\ merge_result = NoMerge
    /\ RunLocals
    /\ NoFetch
    /\ NoProcessor

-----------------------------------------------------------------------------
(* transfer_tags_graphql *)

\* the state of the StashDB client and of its cache
fetcher == <<cache_file, cache_source, clock, endpoint, use_cache, at_call, page,
             attempt, total_count, all_tags, all_tag_dicts, sent, sleeps>>

\* the state of the SceneProcessor of copyStashBoxUrls.py
processor == <<processed_count, scene_updated_count, skipped_count, error_count,
               total_with_stashids, scene_page, scenes, scene_idx>>

inputs == <<tags, ignored_aliases, run, merge_result, fetcher, processor>>
counters == <<skipped_tags, failed_tags, updated_count>>
indices == <<existing_tags_by_name, existing_tags_by_stash_id>>

\* line 111, the read succeeds
FindExisting ==
    /\ pc = "start"
    /\ existing_tags_by_name' = TagMap(store)
    /\ existing_tags_by_stash_id' = StashIdMap(store)
    /\ pc' = "stage1"
    /\ i' = 1
    /\ UNCHANGED <<store, inputs, matched_tags, tags_to_update, counters, new_tags,
                   created_tags, stats, requests, evals, read_failed>>

\* line 111, find_tags raises: find_existing_tags_with_data logs and returns ({}, {})
FindExistingFails ==
    /\ pc = "start"
    /\ existing_tags_by_name' = EmptyMap
    /\ existing_tags_by_stash_id' = EmptyMap
    /\ read_failed' = TRUE
    /\ pc' = "stage1"
    /\ i' = 1
    /\ UNCHANGED <<store, inputs, matched_tags, tags_to_update, counters, new_tags,
                   created_tags, stats, requests, evals>>

\* lines 129-144 and 154-169: the sync check, the conflict check and the bookkeeping
\* of one matched pair in the given stage
Matched(stage, tag, existing_tag) ==
    LET result == Evaluate(tag, existing_tag, existing_tags_by_name, ignored_aliases)
    IN  /\ failed_tags' = IF result = "conflict" THEN failed_tags + 1 ELSE failed_tags
        /\ tags_to_update' = IF result = "update"
                             THEN Append(tags_to_update,
                                         UpdateEntry(tag, existing_tag, ignored_aliases))
                             ELSE tags_to_update
        /\ matched_tags' = MarkMatched(matched_tags, tag)
        /\ evals' = evals \cup {[stage |-> stage, idx |-> i, result |-> result,
                                 id |-> existing_tag.id,
                                 pos |-> IF result = "update"
                                         THEN Len(tags_to_update) + 1 ELSE 0]}
        /\ UNCHANGED skipped_tags

\* one iteration of the stage 1 loop (lines 122-144)
Stage1Step ==
    /\ pc = "stage1"
    /\ i <= Len(tags)
    /\ LET tag == tags[i]
       IN  IF MatchesByStashId(tag, existing_tags_by_stash_id)
           THEN IF NameMissing(tag)
                THEN /\ skipped_tags' = skipped_tags + 1
                     /\ evals' = evals \cup
                            {[stage |-> 1, idx |-> i, result |-> "skipped",
                              id |-> existing_tags_by_stash_id[tag.stash_id].id,
                              pos |-> 0]}
                     /\ UNCHANGED <<failed_tags, tags_to_update, matched_tags>>
                ELSE Matched(1, tag, existing_tags_by_stash_id[tag.stash_id])
           ELSE UNCHANGED <<skipped_tags, failed_tags, tags_to_update, matched_tags, evals>>
    /\ i' = i + 1
    /\ UNCHANGED <<store, inputs, indices, pc, updated_count, new_tags, created_tags,
                   stats, requests, read_failed>>

Stage1End_Early ==
    /\ pc = "stage1"
    /\ i > 1
    /\ pc' = "stage2"
    /\ i' = 1
    /\ UNCHANGED <<store, inputs, indices, matched_tags, tags_to_update, counters,
                   new_tags, created_tags, stats, requests, evals, read_failed>>

\* the stage 1 loop is exhausted (line 146)
Stage1End ==
    /\ pc = "stage1"
    /\ i > Len(tags)
    /\ pc' = "stage2"
    /\ i' = 1
    /\ UNCHANGED <<store, inputs, indices, matched_tags, tags_to_update, counters,
                   new_tags, created_tags, stats, requests, evals, read_failed>>

\* one iteration of the stage 2 loop (lines 151-169)
Stage2Step ==
    /\ pc = "stage2"
    /\ i <= Len(tags)
    /\ LET tag == tags[i]
       IN  IF /\ Unmatched(tag, matched_tags)
              /\ Lower(tag.name) \in DOMAIN existing_tags_by_name
           THEN Matched(2, tag, existing_tags_by_name[Lower(tag.name)])
           ELSE UNCHANGED <<skipped_tags, failed_tags, tags_to_update, matched_tags, evals>>
    /\ i' = i + 1
    /\ UNCHANGED <<store, inputs, indices, pc, updated_count, new_tags, created_tags,
                   stats, requests, read_failed>>

\* the stage 2 loop is exhausted; lines 173-194 build the list of new tags
Stage3 ==
    /\ pc = "stage2"
    /\ i > Len(tags)
    /\ new_tags' = DropExisting(NewTags(tags, matched_tags), 1, existing_tags_by_name)
    /\ pc' = IF new_tags' # <<>> THEN "create" ELSE "update"
    /\ i' = 1
    /\ UNCHANGED <<store, inputs, indices, matched_tags, tags_to_update, counters,
                   created_tags, stats, requests, evals, read_failed>>

-----------------------------------------------------------------------------
(* create_tags_batch (stash_client.py 106-146), called at line 188 *)

Request(op, id, tag, stash_ids, ok) ==
    [op |-> op, id |-> id, tag |-> tag, stash_ids |-> stash_ids, ok |-> ok]

\* if not tag.name or not tag.name.strip()   (create_tags_batch, line 119)
HasNoName(tag) == tag.name = <<>> \/ Strip(tag.name) = <<>>

\* lines 119-121: a tag with an empty name is skipped, no request is sent
CreateSkipsBlank ==
    /\ pc = "create"
    /\ i <= Len(new_tags)
    /\ HasNoName(new_tags[i])
    /\ i' = i + 1
    /\ UNCHANGED <<store, inputs, indices, pc, matched_tags, tags_to_update, counters,
                   new_tags, created_tags, stats, requests, evals, read_failed>>

\* lines 123-134: create_tag succeeds and returns the new id
CreateOk ==
    /\ pc = "create"
    /\ i <= Len(new_tags)
    /\ ~HasNoName(new_tags[i])
    /\ ~NameTaken(store, 0, new_tags[i].name)
    /\ LET tag == new_tags[i]
           id  == Len(store) + 1
       IN  /\ store' = Append(store, CreatedTag(id, tag))
           /\ created_tags' = [n \in DOMAIN created_tags \cup {Lower(tag.name)} |->
                                  IF n = Lower(tag.name) THEN id ELSE created_tags[n]]
           /\ requests' = Append(requests, Request("create", id, tag, <<>>, TRUE))
    /\ i' = i + 1
    /\ UNCHANGED <<inputs, indices, pc, matched_tags, tags_to_update, counters,
                   new_tags, stats, evals, read_failed>>

CreateFails_Aborts ==
    /\ pc = "create"
    /\ i <= Len(new_tags)
    /\ ~HasNoName(new_tags[i])
    /\ requests' = Append(requests, Request("create", 0, new_tags[i], <<>>, FALSE))
    /\ pc' = "update"
    /\ i' = 1
    /\ UNCHANGED <<store, inputs, indices, matched_tags, tags_to_update, counters,
                   new_tags, created_tags, stats, evals, read_failed>>

\* lines 138-140: create_tag raises; the error is logged and the loop continues
CreateFails ==
    /\ pc = "create"
    /\ i <= Len(new_tags)
    /\ ~HasNoName(new_tags[i])
    /\ requests' = Append(requests, Request("create", 0, new_tags[i], <<>>, FALSE))
    /\ i' = i + 1
    /\ UNCHANGED <<store, inputs, indices, pc, matched_tags, tags_to_update, counters,
                   new_tags, created_tags, stats, evals, read_failed>>

\* line 142 and tag_transfer.py 189: the batch returns created_tags
CreateEnd ==
    /\ pc = "create"
    /\ i > Len(new_tags)
    /\ pc' = "update"
    /\ i' = 1
    /\ UNCHANGED <<store, inputs, indices, matched_tags, tags_to_update, counters,
                   new_tags, created_tags, stats, requests, evals, read_failed>>

-----------------------------------------------------------------------------
(* update_tags_batch (stash_client.py 242-347), called at line 200 *)

\* lines 274-284, step a: update_tag succeeds; step b follows when a stash_id
\* has to be attached (lines 289-305)
UpdateOk ==
    /\ pc = "update"
    /\ i <= Len(tags_to_update)
    /\ LET item == tags_to_update[i]
       IN  /\ ~NameTaken(store, item.tag_id, item.tag.name)
           /\ store' = [store EXCEPT ![item.tag_id] = UpdatedTag(@, item.tag)]
           /\ requests' = Append(requests,
                                 Request("update", item.tag_id, item.tag, <<>>, TRUE))
           /\ updated_count' = updated_count + 1
           /\ IF NeedsAttach(item)
              THEN pc' = "attach" /\ i' = i
              ELSE pc' = "update" /\ i' = i + 1
    /\ UNCHANGED <<inputs, indices, matched_tags, tags_to_update, skipped_tags,
                   failed_tags, new_tags, created_tags, stats, evals, read_failed>>

UpdateFails_StillAttaches ==
    /\ pc = "update"
    /\ i <= Len(tags_to_update)
    /\ LET item == tags_to_update[i]
       IN  /\ requests' = Append(requests,
                                 Request("update", item.tag_id, item.tag, <<>>, FALSE))
           /\ IF NeedsAttach(item)
              THEN pc' = "attach" /\ i' = i
              ELSE pc' = "update" /\ i' = i + 1
    /\ UNCHANGED <<store, inputs, indices, matched_tags, tags_to_update, counters,
                   new_tags, created_tags, stats, evals, read_failed>>

\* lines 320-340, step a: update_tag returns no result or raises; step b is skipped
UpdateFails ==
    /\ pc = "update"
    /\ i <= Len(tags_to_update)
    /\ LET item == tags_to_update[i]
       IN  requests' = Append(requests,
                              Request("update", item.tag_id, item.tag, <<>>, FALSE))
    /\ i' = i + 1
    /\ UNCHANGED <<store, inputs, indices, pc, matched_tags, tags_to_update, counters,
                   new_tags, created_tags, stats, evals, read_failed>>

\* lines 306-313, step b: update_tag_stash_ids succeeds
AttachOk ==
    /\ pc = "attach"
    /\ LET item  == tags_to_update[i]
           dicts == StashIdDicts(item.existing_stash_ids, item.stash_id)
       IN  /\ store' = [store EXCEPT ![item.tag_id].stash_ids = dicts]
           /\ requests' = Append(requests,
                                 Request("stash_ids", item.tag_id, item.tag, dicts, TRUE))
    /\ pc' = "update"
    /\ i' = i + 1
    /\ UNCHANGED <<inputs, indices, matched_tags, tags_to_update, counters, new_tags,
                   created_tags, stats, evals, read_failed>>

AttachFails_CountsFailure ==
    /\ pc = "attach"
    /\ LET item  == tags_to_update[i]
           dicts == StashIdDicts(item.existing_stash_ids, item.stash_id)
       IN  requests' = Append(requests,
                              Request("stash_ids", item.tag_id, item.tag, dicts, FALSE))
    /\ updated_count' = updated_count - 1
    /\ pc' = "update"
    /\ i' = i + 1
    /\ UNCHANGED <<store, inputs, indices, matched_tags, tags_to_update, skipped_tags,
                   failed_tags, new_tags, created_tags, stats, evals, read_failed>>

\* lines 314-319, step b: update_tag_stash_ids returns False; a warning is logged
AttachFails ==
    /\ pc = "attach"
    /\ LET item  == tags_to_update[i]
           dicts == StashIdDicts(item.existing_stash_ids, item.stash_id)
       IN  requests' = Append(requests,
                              Request("stash_ids", item.tag_id, item.tag, dicts, FALSE))
    /\ pc' = "update"
    /\ i' = i + 1
    /\ UNCHANGED <<store, inputs, indices, matched_tags, tags_to_update, counters,
                   new_tags, created_tags, stats, evals, read_failed>>

\* tag_transfer.py 201-221: the statistics returned by the run
Statistics ==
    [created |-> Cardinality(DOMAIN created_tags),
     updated |-> updated_count,
     skipped |-> skipped_tags,
     failed  |-> failed_tags + (Len(tags_to_update) - updated_count),
     total   |-> Len(tags)]

Finish ==
    /\ pc = "update"
    /\ i > Len(tags_to_update)
    /\ stats' = Statistics
    /\ pc' = "done"
    /\ UNCHANGED <<store, inputs, indices, matched_tags, tags_to_update, counters, i,
                   new_tags, created_tags, requests, evals, read_failed>>

\* the plugin is run again over the same remote tag list
NextRun ==
    /\ pc = "done"
    /\ run < MaxRuns
    /\ run' = run + 1
    /\ pc' = "start"
    /\ existing_tags_by_name' = EmptyMap
    /\ existing_tags_by_stash_id' = EmptyMap
    /\ matched_tags' = {}
    /\ tags_to_update' = <<>>
    /\ skipped_tags' = 0
    /\ failed_tags' = 0
    /\ i' = 1
    /\ new_tags' = <<>>
    /\ created_tags' = EmptyMap
    /\ updated_count' = 0
    /\ stats' = NoStats
    /\ requests' = <<>>
    /\ evals' = {}
    /\ read_failed' = FALSE
    /\ UNCHANGED <<store, tags, ignored_aliases, merge_result, fetcher, processor>>

\* a single run, with every store request free to fail
Next ==
    \/ FindExisting
    \/ FindExistingFails
    \/ Stage1Step
    \/ Stage1End
    \/ Stage2Step
    \/ Stage3
    \/ CreateSkipsBlank
    \/ CreateOk
    \/ CreateFails
    \/ CreateEnd
    \/ UpdateOk
    \/ UpdateFails
    \/ AttachOk
    \/ AttachFails
    \/ Finish

Spec == Init /\ [][Next]_vars

\* The user interrupts the run while create_tags_batch or update_tags_batch is
\* at work: KeyboardInterrupt is not an Exception, so no handler of the two
\* batches or of transfer_tags_graphql catches it; plugin_main logs the
\* cancellation and exits with status 130 (stashdbTagSync.py 198-200).
Interrupt ==
    /\ pc \in {"create", "update", "attach"}
    /\ pc' = "cancelled"
    /\ UNCHANGED <<store, inputs, indices, matched_tags, tags_to_update, counters, i,
                   new_tags, created_tags, stats, requests, evals, read_failed>>

NextInterrupt ==
    \/ Next
    \/ Interrupt

SpecInterrupt == Init /\ [][NextInterrupt]_vars

\* the server rejects a create or an update that would duplicate a tag name
CreateRejected ==
    /\ pc = "create"
    /\ i <= Len(new_tags)
    /\ NameTaken(store, 0, new_tags[i].name)
    /\ CreateFails

UpdateRejected ==
    /\ pc = "update"
    /\ i <= Len(tags_to_update)
    /\ NameTaken(store, tags_to_update[i].tag_id, tags_to_update[i].tag.name)
    /\ UpdateFails

\* runs in a row against a store that is up: the bulk read succeeds and a
\* write fails only when the server has to reject it
NextTwice ==
    \/ FindExisting
    \/ Stage1Step
    \/ Stage1End
    \/ Stage2Step
    \/ Stage3
    \/ CreateSkipsBlank
    \/ CreateOk
    \/ CreateRejected
    \/ CreateEnd
    \/ UpdateOk
    \/ UpdateRejected
    \/ AttachOk
    \/ Finish
    \/ NextRun

SpecTwice == Init /\ [][NextTwice]_vars

-----------------------------------------------------------------------------
(* A single call of _merge_tag_data on one remote tag and one local tag *)

AliasStrings == {<<"b">>, <<"B">>, <<" ", "b">>, <<" ">>, <<"a">>}

\* the alias list of one tag holds no two aliases equal case-insensitively
CaseInsensitiveUnique(list) ==
    \A j, k \in 1..Len(list) : j # k => Lower(Strip(list[j])) # Lower(Strip(list[k]))

MergeAliasLists ==
    {l \in UNION {[1..n -> AliasStrings] : n \in 0..MaxAliases} : CaseInsensitiveUnique(l)}

MergeDescriptions == {<<>>, <<" ">>, <<"d", " ">>}

MergeIgnoreLists == {<<>>, << <<"B">> >>, << <<"a">> >>}

InitMerge ==
    /\ tags \in {<<t>> : t \in [name : {<<"B">>}, description : MergeDescriptions,
                                stash_id : {"s1"}, aliases : MergeAliasLists]}
    /\ store \in {<<t>> : t \in [id : {1}, name : {<<"a">>},
                                 description : MergeDescriptions,
                                 aliases : MergeAliasLists, stash_ids : {<<>>}]}
    /\ ignored_aliases \in MergeIgnoreLists
    /\ run = 1
    /\ merge_result = NoMerge
    /\ RunLocals
    /\ NoFetch
    /\ NoProcessor

MergeCall ==
    /\ pc = "start"
    /\ merge_result' = merge_tag_data(tags[1], store[1], ignored_aliases)
    /\ pc' = "merged"
    /\ UNCHANGED <<store, tags, ignored_aliases, run, indices, matched_tags,
                   tags_to_update, counters, i, new_tags, created_tags, stats,
                   requests, evals, read_failed, fetcher, processor>>

NextMerge == MergeCall

SpecMerge == InitMerge /\ [][NextMerge]_vars

-----------------------------------------------------------------------------
(* graphql_client.py: StashDBClient.query_all_tags, its cache and its retries *)

CACHE_EXPIRY_HOURS == 24
per_page == 100
max_retries == 3
base_delay == 1

OtherEndpoint == "https://other.example/graphql"

Endpoints == {StashDBEndpoint, OtherEndpoint}

\* the tag records a server holds, as the dicts of a queryTags response; the
\* ids of one server are not ids of the other
ServerRecords(ep) ==
    IF ep = StashDBEndpoint
    THEN {[id |-> "s1", name |-> <<"a">>, description |-> <<"d">>, aliases |-> <<>>,
           deleted |-> FALSE],
          [id |-> "s2", name |-> <<"B">>, description |-> <<>>, aliases |-> <<>>,
           deleted |-> TRUE]}
    ELSE {[id |-> "t1", name |-> <<"a">>, description |-> <<>>, aliases |-> <<>>,
           deleted |-> FALSE]}

\* a page shorter than per_page
ShortPages(ep) == {<<>>} \cup {<<r>> : r \in ServerRecords(ep)}

\* a page of per_page records
FullPages(ep) ==
    {[k \in 1..per_page |-> r] : r \in ServerRecords(ep)}

\* the count a server advertises
Counts == {0, 250}

\* data['queryTags'] of the response to the request for page pg; a server
\* answers a fetch with at most MaxPages pages
Responses(ep, pg) ==
    [count : Counts,
     tags  : ShortPages(ep) \cup (IF pg < MaxPages THEN FullPages(ep) ELSE {})]

\* _tag_from_graphql
tag_from_graphql(tag_data) ==
    [name        |-> tag_data.name,
     description |-> tag_data.description,
     stash_id    |-> tag_data.id,
     aliases     |-> tag_data.aliases]

NotDeleted_KeepsAll(tgs) == tgs

\* [tag for tag in tags if not tag.get('deleted', False)]
NotDeleted(tgs) == SelectSeq(tgs, LAMBDA d : ~d.deleted)

Convert(dicts) == [k \in 1..Len(dicts) |-> tag_from_graphql(dicts[k])]

CacheMiss == [hit |-> FALSE, tags |-> <<>>]

get_cache_file_NeverExpires(file, now) ==
    IF file = NoCache THEN CacheMiss ELSE [hit |-> TRUE, tags |-> file.tags]

\* _get_cache_file: None when the file is absent or older than the expiry
get_cache_file(file, now) ==
    IF file = NoCache THEN CacheMiss
    ELSE IF now - file.timestamp > CACHE_EXPIRY_HOURS THEN CacheMiss
    ELSE [hit |-> TRUE, tags |-> file.tags]

\* _save_cache_file
save_cache_file(tgs, now) == [timestamp |-> now, tags |-> tgs]

\* the variables of the tag transfer, which a fetch leaves alone
transfer == <<store, tags, ignored_aliases, run, indices, matched_tags, tags_to_update,
              counters, i, new_tags, created_tags, stats, requests, evals, read_failed,
              merge_result>>

InitFetch ==
    /\ store = <<>>
    /\ tags = <<>>
    /\ ignored_aliases = <<>>
    /\ run = 1
    /\ merge_result = NoMerge
    /\ pc = "idle"
    /\ existing_tags_by_name = EmptyMap
    /\ existing_tags_by_stash_id = EmptyMap
    /\ matched_tags = {}
    /\ tags_to_update = <<>>
    /\ skipped_tags = 0
    /\ failed_tags = 0
    /\ i = 1
    /\ new_tags = <<>>
    /\ created_tags = EmptyMap
    /\ updated_count = 0
    /\ stats = NoStats
    /\ requests = <<>>
    /\ evals = {}
    /\ read_failed = FALSE
    /\ NoFetch
    /\ NoProcessor

\* no call of query_all_tags is running
Idle == pc = "idle"

\* a client configured with endpoint ep calls query_all_tags(use_cache=uc):
\* lines 131-137 and 160-164
QueryAllTags(ep, uc) ==
    /\ Idle
    /\ endpoint' = ep
    /\ use_cache' = uc
    /\ at_call' = [cache |-> cache_file, clock |-> clock]
    /\ sent' = <<>>
    /\ sleeps' = <<>>
    /\ all_tag_dicts' = <<>>
    /\ page' = 1
    /\ attempt' = 0
    /\ total_count' = -1
    /\ LET cached == get_cache_file(cache_file, clock)
       IN  IF uc /\ cached.hit
           THEN all_tags' = Convert(cached.tags) /\ pc' = "returned"
           ELSE all_tags' = <<>> /\ pc' = "request"
    /\ UNCHANGED <<cache_file, cache_source, clock, transfer,
                   processor>>

Call == \E ep \in Endpoints, uc \in BOOLEAN : QueryAllTags(ep, uc)

\* one requests.post of _execute_query: what was asked, how it ended and how
\* many records it delivered
Posted(outcome, received) ==
    Append(sent, [endpoint |-> endpoint, page |-> page, attempt |-> attempt,
                  outcome |-> outcome, received |-> received])

PageArrives_StopsAtCount ==
    /\ pc = "request"
    /\ \E resp \in Responses(endpoint, page) :
          /\ sent' = Posted("data", Len(resp.tags))
          /\ total_count' = IF total_count = -1 THEN resp.count ELSE total_count
          /\ all_tags' = all_tags \o Convert(NotDeleted(resp.tags))
          /\ all_tag_dicts' = all_tag_dicts \o NotDeleted(resp.tags)
          /\ IF Len(resp.tags) < per_page \/ page * per_page >= total_count'
             THEN /\ cache_file' = save_cache_file(all_tag_dicts', clock)
                  /\ cache_source' = endpoint
                  /\ pc' = "returned"
                  /\ UNCHANGED <<page, attempt>>
             ELSE /\ page' = page + 1
                  /\ attempt' = 0
                  /\ UNCHANGED <<cache_file, cache_source, pc>>
    /\ UNCHANGED <<clock, endpoint, use_cache, at_call, sleeps, transfer,
                   processor>>

PageArrives_SavesEachPage ==
    /\ pc = "request"
    /\ \E resp \in Responses(endpoint, page) :
          /\ sent' = Posted("data", Len(resp.tags))
          /\ total_count' = IF total_count = -1 THEN resp.count ELSE total_count
          /\ all_tags' = all_tags \o Convert(NotDeleted(resp.tags))
          /\ all_tag_dicts' = all_tag_dicts \o NotDeleted(resp.tags)
          /\ cache_file' = save_cache_file(all_tag_dicts', clock)
          /\ cache_source' = endpoint
          /\ IF Len(resp.tags) < per_page
             THEN /\ pc' = "returned"
                  /\ UNCHANGED <<page, attempt>>
             ELSE /\ page' = page + 1
                  /\ attempt' = 0
                  /\ UNCHANGED pc
    /\ UNCHANGED <<clock, endpoint, use_cache, at_call, sleeps, transfer,
                   processor>>

\* lines 98-111 and 178-218: the request succeeds and the page is processed;
\* after a short page the cache is saved and the list returned
PageArrives ==
    /\ pc = "request"
    /\ \E resp \in Responses(endpoint, page) :
          /\ sent' = Posted("data", Len(resp.tags))
          /\ total_count' = IF total_count = -1 THEN resp.count ELSE total_count
          /\ all_tags' = all_tags \o Convert(NotDeleted(resp.tags))
          /\ all_tag_dicts' = all_tag_dicts \o NotDeleted(resp.tags)
          /\ IF Len(resp.tags) < per_page
             THEN /\ cache_file' = save_cache_file(all_tag_dicts', clock)
                  /\ cache_source' = endpoint
                  /\ pc' = "returned"
                  /\ UNCHANGED <<page, attempt>>
             ELSE /\ page' = page + 1
                  /\ attempt' = 0
                  /\ UNCHANGED <<cache_file, cache_source, pc>>
    /\ UNCHANGED <<clock, endpoint, use_cache, at_call, sleeps, transfer,
                   processor>>

\* the call is left by an exception: lines 211-213
Raised(outcome) ==
    /\ sent' = Posted(outcome, 0)
    /\ pc' = "raised"
    /\ UNCHANGED <<cache_file, cache_source, clock, endpoint, use_cache, at_call, page,
                   attempt, total_count, all_tags, all_tag_dicts, sleeps, transfer,
                   processor>>

ErrorPayload_Retried ==
    /\ pc = "request"
    /\ IF attempt < max_retries - 1
       THEN /\ sent' = Posted("errors", 0)
            /\ attempt' = attempt + 1
            /\ UNCHANGED <<cache_file, cache_source, clock, endpoint, use_cache, at_call,
                           page, pc, total_count, all_tags, all_tag_dicts, sleeps,
                           transfer, processor>>
       ELSE Raised("errors")

\* lines 107-109: the response carries 'errors'; ValueError is not caught by
\* _execute_query
ErrorPayload ==
    /\ pc = "request"
    /\ Raised("errors")

\* lines 180-186: the response lacks 'queryTags', 'tags' or 'count'
InvalidResponse ==
    /\ pc = "request"
    /\ Raised("invalid")

TransientError_OneMore ==
    /\ pc = "request"
    /\ IF attempt < max_retries
       THEN /\ sent' = Posted("transient", 0)
            /\ sleeps' = Append(sleeps, base_delay * (2 ^ attempt))
            /\ attempt' = attempt + 1
            /\ UNCHANGED <<cache_file, cache_source, clock, endpoint, use_cache, at_call,
                           page, pc, total_count, all_tags, all_tag_dicts, transfer,
                   processor>>
       ELSE Raised("transient")

\* lines 113-120: Timeout or ConnectionError; retried after a delay until
\* max_retries attempts are spent
TransientError ==
    /\ pc = "request"
    /\ IF attempt < max_retries - 1
       THEN /\ sent' = Posted("transient", 0)
            /\ sleeps' = Append(sleeps, base_delay * (2 ^ attempt))
            /\ attempt' = attempt + 1
            /\ UNCHANGED <<cache_file, cache_source, clock, endpoint, use_cache, at_call,
                           page, pc, total_count, all_tags, all_tag_dicts, transfer,
                   processor>>
       ELSE Raised("transient")

\* lines 121-123: any other RequestException (an HTTP error status)
RequestError ==
    /\ pc = "request"
    /\ Raised("http")

\* clear_cache (lines 77-84)
ClearCache ==
    /\ Idle
    /\ cache_file # NoCache
    /\ cache_file' = NoCache
    /\ cache_source' = ""
    /\ UNCHANGED <<pc, clock, endpoint, use_cache, at_call, page, attempt, total_count,
                   all_tags, all_tag_dicts, sent, sleeps, transfer,
                   processor>>

\* query_all_tags returned its list, or raised: the caller goes on (plugin_main,
\* line 177) and the locals of the call are gone
Done ==
    /\ pc \in {"returned", "raised"}
    /\ pc' = "idle"
    /\ endpoint' = ""
    /\ use_cache' = TRUE
    /\ at_call' = [cache |-> NoCache, clock |-> 0]
    /\ page' = 1
    /\ attempt' = 0
    /\ total_count' = -1
    /\ all_tags' = <<>>
    /\ all_tag_dicts' = <<>>
    /\ sent' = <<>>
    /\ sleeps' = <<>>
    /\ UNCHANGED <<cache_file, cache_source, clock, transfer,
                   processor>>

\* the hours that pass between two calls: half an expiry period, or an hour more
TickHours == {CACHE_EXPIRY_HOURS \div 2, CACHE_EXPIRY_HOURS \div 2 + 1}

Tick ==
    /\ Idle
    /\ \E d \in TickHours :
          /\ clock + d <= MaxClock
          /\ clock' = clock + d
    /\ UNCHANGED <<pc, cache_file, cache_source, endpoint, use_cache, at_call, page,
                   attempt, total_count, all_tags, all_tag_dicts, sent, sleeps, transfer,
                   processor>>

NextFetch ==
    \/ Call
    \/ PageArrives
    \/ ErrorPayload
    \/ InvalidResponse
    \/ TransientError
    \/ RequestError
    \/ Done
    \/ ClearCache
    \/ Tick

SpecFetch == InitFetch /\ [][NextFetch]_vars

-----------------------------------------------------------------------------
(* copyStashBoxUrls.py: SceneProcessor.process_all *)

\* endpoint.replace("/graphql", "").rstrip("/")
BaseUrl(ep) ==
    CASE ep = StashDBEndpoint -> "https://stashdb.org"
      [] ep = OtherEndpoint   -> "https://other.example"
      [] OTHER                -> ep

\* construct_stashbox_url: None (here <<>>) without an endpoint or a stash_id,
\* else base_url/entity_type/stash_id
construct_stashbox_url(ep, stash_id, entity_type) ==
    IF ep = "" \/ stash_id = "" THEN <<>> ELSE <<BaseUrl(ep), entity_type, stash_id>>

\* extract_urls_from_stashids
RECURSIVE extract_urls_from_stashids(_, _)
extract_urls_from_stashids(stash_ids, entity_type) ==
    IF stash_ids = <<>> THEN <<>>
    ELSE LET url == construct_stashbox_url(Head(stash_ids).endpoint,
                                           Head(stash_ids).stash_id, entity_type)
         IN  (IF url # <<>> THEN <<url>> ELSE <<>>)
                 \o extract_urls_from_stashids(Tail(stash_ids), entity_type)

\* merge_urls: the existing urls, then every new url not yet in the list
RECURSIVE merge_urls(_, _)
merge_urls(existing_urls, new_urls) ==
    IF new_urls = <<>> THEN existing_urls
    ELSE IF Head(new_urls) \in Range(existing_urls)
         THEN merge_urls(existing_urls, Tail(new_urls))
         ELSE merge_urls(Append(existing_urls, Head(new_urls)), Tail(new_urls))

\* the scenes a findScenes page can hold: without an id, without stash_ids, with
\* a stash_id that has no endpoint, with a stash_id and no url yet, and with the
\* url already in place
SceneKinds ==
    LET ref == [endpoint |-> StashDBEndpoint, stash_id |-> "x"]
    IN  {[id |-> "",  urls |-> <<>>, stash_ids |-> <<ref>>],
         [id |-> "7", urls |-> <<>>, stash_ids |-> <<>>],
         [id |-> "7", urls |-> <<>>, stash_ids |-> <<[endpoint |-> "", stash_id |-> "x"]>>],
         [id |-> "7", urls |-> <<>>, stash_ids |-> <<ref>>],
         [id |-> "7", urls |-> << <<"https://stashdb.org", "scenes", "x">> >>,
          stash_ids |-> <<ref>>]}

\* the non-empty pages query_scenes_with_stashids can return
ScenePages == UNION {[1..n -> SceneKinds] : n \in 1..MaxPageLen}

\* process_scene, lines 310-339: "skip" unless the merged urls differ from the
\* existing ones
SceneOutcome(scene) ==
    LET new_urls == extract_urls_from_stashids(scene.stash_ids, "scenes")
    IN  IF scene.id = "" THEN "skip"
        ELSE IF scene.stash_ids = <<>> THEN "skip"
        ELSE IF new_urls = <<>> THEN "skip"
        ELSE IF merge_urls(scene.urls, new_urls) = scene.urls THEN "skip"
        ELSE "update"

InitScenes ==
    /\ store = <<>>
    /\ tags = <<>>
    /\ ignored_aliases = <<>>
    /\ run = 1
    /\ merge_result = NoMerge
    /\ pc = "process_all"
    /\ existing_tags_by_name = EmptyMap
    /\ existing_tags_by_stash_id = EmptyMap
    /\ matched_tags = {}
    /\ tags_to_update = <<>>
    /\ skipped_tags = 0
    /\ failed_tags = 0
    /\ i = 1
    /\ new_tags = <<>>
    /\ created_tags = EmptyMap
    /\ updated_count = 0
    /\ stats = NoStats
    /\ requests = <<>>
    /\ evals = {}
    /\ read_failed = FALSE
    /\ NoFetch
    /\ NoProcessor

\* lines 137-146: get_scene_count_with_stashids returns the count the server
\* reports (0 when the query fails); nothing is done for a count of 0
GetSceneCount ==
    /\ pc = "process_all"
    /\ \E count \in 0..MaxScenes :
          /\ total_with_stashids' = count
          /\ pc' = IF count = 0 THEN "returned" ELSE "while"
    /\ UNCHANGED <<processed_count, scene_updated_count, skipped_count, error_count,
                   scene_page, scenes, scene_idx, transfer, fetcher>>

\* lines 148-155: the loop condition holds and the query returns a non-empty page
QueryScenes ==
    /\ pc = "while"
    /\ processed_count < total_with_stashids
    /\ \E result \in ScenePages :
          /\ scenes' = result
          /\ scene_idx' = 1
          /\ pc' = "for"
    /\ UNCHANGED <<processed_count, scene_updated_count, skipped_count, error_count,
                   total_with_stashids, scene_page, transfer, fetcher>>

\* lines 152-153: the query returns no scenes
QueryScenesEmpty ==
    /\ pc = "while"
    /\ processed_count < total_with_stashids
    /\ pc' = "summary"
    /\ UNCHANGED <<processor, transfer, fetcher>>

\* lines 163-166: the query raises
QueryScenesRaises ==
    /\ pc = "while"
    /\ processed_count < total_with_stashids
    /\ error_count' = error_count + 1
    /\ pc' = "summary"
    /\ UNCHANGED <<processed_count, scene_updated_count, skipped_count,
                   total_with_stashids, scene_page, scenes, scene_idx, transfer, fetcher>>

\* line 148: the loop condition fails
WhileEnd ==
    /\ pc = "while"
    /\ processed_count >= total_with_stashids
    /\ pc' = "summary"
    /\ UNCHANGED <<processor, transfer, fetcher>>

ProcessScene_CountsUpdatesOnly ==
    /\ pc = "for"
    /\ scene_idx <= Len(scenes)
    /\ \/ /\ SceneOutcome(scenes[scene_idx]) = "skip"
          /\ skipped_count' = skipped_count + 1
          /\ UNCHANGED <<processed_count, scene_updated_count, error_count>>
       \/ /\ SceneOutcome(scenes[scene_idx]) = "update"
          /\ processed_count' = processed_count + 1
          /\ scene_updated_count' = scene_updated_count + 1
          /\ UNCHANGED <<skipped_count, error_count>>
       \/ /\ SceneOutcome(scenes[scene_idx]) = "update"
          /\ error_count' = error_count + 1
          /\ UNCHANGED <<processed_count, scene_updated_count, skipped_count>>
    /\ scene_idx' = scene_idx + 1
    /\ UNCHANGED <<pc, total_with_stashids, scene_page, scenes, transfer, fetcher>>

\* process_scene (lines 300-349) on the next scene of the page: the scene is
\* skipped, or updated, or update_scene_urls raises
ProcessScene ==
    /\ pc = "for"
    /\ scene_idx <= Len(scenes)
    /\ processed_count' = processed_count + 1
    /\ \/ /\ SceneOutcome(scenes[scene_idx]) = "skip"
          /\ skipped_count' = skipped_count + 1
          /\ UNCHANGED <<scene_updated_count, error_count>>
       \/ /\ SceneOutcome(scenes[scene_idx]) = "update"
          /\ scene_updated_count' = scene_updated_count + 1
          /\ UNCHANGED <<skipped_count, error_count>>
       \/ /\ SceneOutcome(scenes[scene_idx]) = "update"
          /\ error_count' = error_count + 1
          /\ UNCHANGED <<scene_updated_count, skipped_count>>
    /\ scene_idx' = scene_idx + 1
    /\ UNCHANGED <<pc, total_with_stashids, scene_page, scenes, transfer, fetcher>>

\* lines 158-161: the page is done
PageDone ==
    /\ pc = "for"
    /\ scene_idx > Len(scenes)
    /\ scene_page' = scene_page + 1
    /\ pc' = "while"
    /\ UNCHANGED <<processed_count, scene_updated_count, skipped_count, error_count,
                   total_with_stashids, scenes, scene_idx, transfer, fetcher>>

\* lines 168-174: the summary is logged and process_all returns
Summary ==
    /\ pc = "summary"
    /\ pc' = "returned"
    /\ UNCHANGED <<processor, transfer, fetcher>>

NextScenes ==
    \/ GetSceneCount
    \/ QueryScenes
    \/ QueryScenesEmpty
    \/ QueryScenesRaises
    \/ WhileEnd
    \/ ProcessScene
    \/ PageDone
    \/ Summary

\* process_all is one sequential loop: it keeps running until it returns
SpecScenes == InitScenes /\ [][NextScenes]_vars /\ WF_vars(NextScenes)

-----------------------------------------------------------------------------
(* Properties *)

\* the local tag with this id as the bulk read of the run returned it
Snapshot(id) ==
    CHOOSE t \in {existing_tags_by_name[n] : n \in DOMAIN existing_tags_by_name} :
        t.id = id

MergedFor(e) == merge_tag_data(tags[e.idx], Snapshot(e.id), ignored_aliases)

IgnoredSet == {Lower(a) : a \in Range(ignored_aliases)}

Count(S) == Cardinality(S)

FailedRequests(op) == {k \in 1..Len(requests) : requests[k].op = op /\ ~requests[k].ok}

\* C1: a second run in a row over the same remote tag list, against the store
\* as the first run left it, reports updated = 0.
C1_SecondRunUpdatesNothing ==
    (run = 2 /\ pc = "done") => stats.updated = 0

\* C2: when the bulk read of the local tags fails the run aborts: it sends no
\* create and no update request and returns no statistics.
C2_ReadFailureAborts ==
    read_failed => (requests = <<>> /\ stats = NoStats)

\* C3: the update batch contains each local tag id at most once.
C3_BatchIdsDistinct ==
    \A j, k \in 1..Len(tags_to_update) :
        j # k => tags_to_update[j].tag_id # tags_to_update[k].tag_id

\* C4: a remote tag matched by stash_id in stage 1 is evaluated exactly once:
\* stage 2 adds no sync check, no conflict check, no update entry and no failure
\* count for it (every update entry and every failure count comes from one
\* evaluation).
C4_Stage1MatchNotReevaluated ==
    /\ \A e1 \in evals :
          (e1.stage = 1 /\ e1.result # "skipped") =>
              \A e2 \in evals : e2.idx = e1.idx => e2 = e1
    /\ failed_tags = Count({e \in evals : e.result = "conflict"})
    /\ Len(tags_to_update) = Count({e \in evals : e.result = "update"})
    /\ \A e \in evals : e.result = "update" <=> e.pos # 0

\* the run is past stage 2 with a stage 1 match whose name is also the name of
\* another local tag
C4_Witness ==
    /\ pc = "done"
    /\ \E e \in evals :
          /\ e.stage = 1
          /\ e.result # "skipped"
          /\ Lower(tags[e.idx].name) \in DOMAIN existing_tags_by_name
          /\ existing_tags_by_name[Lower(tags[e.idx].name)].id # e.id

\* C5: the returned statistics satisfy created + updated + skipped + failed = total.
C5_StatsAddUp ==
    pc = "done" =>
        stats.created + stats.updated + stats.skipped + stats.failed = stats.total

\* C6: the alias list returned by _merge_tag_data is sorted and holds no two
\* aliases that are equal case-insensitively.
C6_MergedAliasesCaseInsensitiveUnique ==
    pc = "merged" =>
        LET al == merge_result.aliases
        IN  /\ \A j, k \in 1..Len(al) : j # k => Lower(al[j]) # Lower(al[k])
            /\ \A j \in 1..Len(al) - 1 : StrLess(al[j], al[j + 1])

\* the alias equals, case-insensitively, the name of a local tag other than id
\* and is not on the ignore list
CollidesWithOther(alias, id) ==
    /\ Lower(Strip(alias)) \notin IgnoredSet
    /\ \E n \in DOMAIN existing_tags_by_name :
          /\ existing_tags_by_name[n].id # id
          /\ Lower(existing_tags_by_name[n].name) = Lower(Strip(alias))

\* an update is due for the matched pair and a merged alias collides
BlockedCase(e) ==
    /\ e.result # "skipped"
    /\ is_tag_out_of_sync(tags[e.idx], Snapshot(e.id), ignored_aliases)
    /\ \E alias \in Range(MergedFor(e).aliases) : CollidesWithOther(alias, e.id)

\* C7: when a merged alias equals the name of another local tag and is not
\* ignored, the update is blocked: it is counted once under failed, it is not in
\* the update batch, the remote tag is not created either, and the local tag
\* keeps every field (no update entry of the blocked remote tag exists; the
\* stored tag is unchanged unless the entry of another remote tag targets it).
C7_ConflictBlocksUpdate ==
    /\ \A e \in evals :
          BlockedCase(e) =>
              /\ e.result = "conflict"
              /\ e.pos = 0
              /\ \A e2 \in evals : e2.idx = e.idx => e2 = e
              /\ \A k \in 1..Len(new_tags) : new_tags[k] # tags[e.idx]
              /\ (\A k \in 1..Len(tags_to_update) : tags_to_update[k].tag_id # e.id)
                    => store[e.id] = Snapshot(e.id)
    /\ failed_tags = Count({e \in evals : e.result = "conflict"})
    /\ pc = "done" => stats.failed = failed_tags + Count(FailedRequests("update"))

\* a finished run that blocked an update whose merged alias is another tag's name
C7_Witness ==
    /\ pc = "done"
    /\ stats.failed = 1
    /\ \E e \in evals :
          /\ BlockedCase(e)
          /\ e.result = "conflict"
          /\ store[e.id] = Snapshot(e.id)

\* C8: an evaluation is blocked by conflict detection only when some merged alias
\* collides with the name of a local tag other than the tag being updated.
C8_ConflictOnlyWithOtherTag ==
    \A e \in evals :
        e.result = "conflict" =>
            \E alias \in Range(MergedFor(e).aliases) : CollidesWithOther(alias, e.id)

\* C9: no merged tag in the update batch has its own name, compared
\* case-insensitively, in its alias list.
C9_NameNotAmongOwnAliases ==
    \A k \in 1..Len(tags_to_update) :
        LET t == tags_to_update[k].tag
        IN  \A j \in 1..Len(t.aliases) : Lower(Strip(t.aliases[j])) # Lower(Strip(t.name))

\* remote tag k has a stash_id of the local index and an empty or blank name
InvalidAt(k) ==
    /\ tags[k].stash_id # ""
    /\ tags[k].stash_id \in DOMAIN existing_tags_by_stash_id
    /\ Strip(tags[k].name) = <<>>

Stage1Passed(k) == pc # "start" /\ (pc = "stage1" => i > k)

\* C10: a remote tag whose stash_id is in the local index and whose name is empty
\* or blank is never put in the update batch and is counted exactly once under
\* skipped.
C10_NamelessMatchSkippedOnce ==
    /\ \A k \in 1..Len(tags) :
          (InvalidAt(k) /\ Stage1Passed(k)) =>
              /\ \E e \in evals : e.idx = k /\ e.result = "skipped"
              /\ \A e \in evals : e.idx = k => (e.result = "skipped" /\ e.pos = 0)
    /\ skipped_tags = Count({e \in evals : e.result = "skipped"})
    /\ \A k \in 1..Len(tags_to_update) : Strip(tags_to_update[k].tag.name) # <<>>
    /\ pc = "done" => stats.skipped = Count({k \in 1..Len(tags) : InvalidAt(k)})

\* a finished run over a list holding a blank-named tag with a known stash_id
C10_Witness ==
    /\ pc = "done"
    /\ stats.skipped = 1
    /\ \E k \in 1..Len(tags) : InvalidAt(k) /\ tags[k].name = <<" ">>

\* the run is past stage 3: new_tags is built
Stage3Passed == pc \in {"create", "update", "attach", "done"}

\* C11: a remote tag whose stash_id is in the local index and whose name is empty
\* or blank is never matched by name in stage 2 and is never put in the list of
\* new tags handed to create_tags_batch.
C11_InvalidNeverMatchedNorNew ==
    \A k \in 1..Len(tags) :
        InvalidAt(k) =>
            /\ \A e \in evals : e.idx = k => e.stage = 1
            /\ Stage3Passed => \A j \in 1..Len(new_tags) : new_tags[j] # tags[k]

RequestsOf(op) == {k \in 1..Len(requests) : requests[k].op = op}

OkRequests(op) == {k \in 1..Len(requests) : requests[k].op = op /\ requests[k].ok}

Named(list, n) == {k \in 1..n : ~HasNoName(list[k])}

BatchRequests == SelectSeq(requests, LAMBDA r : r.op # "create")

\* C13: a stash_ids request (step b) directly follows the successful update
\* request (step a) of the same batch item; an item whose step a fails is counted
\* under failed, gets no stash_ids request, and the items after it are processed.
C13_AttachOnlyAfterUpdate ==
    /\ \A k \in 1..Len(requests) :
          requests[k].op = "stash_ids" =>
              /\ k > 1
              /\ requests[k - 1].op = "update"
              /\ requests[k - 1].ok
              /\ requests[k - 1].id = requests[k].id
    /\ pc = "done" =>
          /\ Count(RequestsOf("update")) = Len(tags_to_update)
          /\ stats.failed >= Count(FailedRequests("update"))
          /\ stats.failed - failed_tags = Count(FailedRequests("update"))

\* a finished run of two batch items: step a of the first failed although it had
\* a stash_id to attach, and the second item was processed
C13_Witness ==
    /\ pc = "done"
    /\ Len(tags_to_update) = 2
    /\ NeedsAttach(tags_to_update[1])
    /\ BatchRequests[1].op = "update" /\ ~BatchRequests[1].ok
    /\ BatchRequests[2].op = "update" /\ BatchRequests[2].ok
    /\ BatchRequests[2].id = tags_to_update[2].tag_id
    /\ stats.failed = 1

\* C14: an item whose step a succeeded is counted once under updated and not
\* under failed, whether or not its stash_ids request (step b) succeeded.
C14_AttachFailureStillUpdated ==
    /\ updated_count = Count(OkRequests("update"))
    /\ pc = "done" =>
          /\ stats.updated = Count(OkRequests("update"))
          /\ stats.failed = failed_tags + Len(tags_to_update) - Count(OkRequests("update"))

\* a finished run of one batch item whose step a succeeded and whose step b failed
C14_Witness ==
    /\ pc = "done"
    /\ Len(tags_to_update) = 1
    /\ \E k \in FailedRequests("stash_ids") : requests[k].id = tags_to_update[1].tag_id
    /\ stats.updated = 1
    /\ stats.failed = 0

\* C15: no alias whose lowercase form is on the (lowercased) ignore list is in
\* the alias list returned by _merge_tag_data.
C15_IgnoredAliasesDropped ==
    pc = "merged" =>
        \A j \in 1..Len(merge_result.aliases) :
            Lower(merge_result.aliases[j]) \notin IgnoredSet

\* a merge where the local tag and the remote tag both propose an ignored alias
C15_Witness ==
    /\ pc = "merged"
    /\ \E a \in Range(store[1].aliases) : Lower(Strip(a)) \in IgnoredSet
    /\ \E a \in Range(tags[1].aliases) : Lower(Strip(a)) \in IgnoredSet
    /\ merge_result.aliases # <<>>

\* C16: the merged description is the trimmed remote description when that is
\* non-empty and otherwise the local description; the merged name is the remote
\* name.
C16_DescriptionRemoteElseLocal ==
    pc = "merged" =>
        /\ merge_result.name = tags[1].name
        /\ merge_result.description =
              IF Strip(tags[1].description) # <<>>
              THEN Strip(tags[1].description)
              ELSE store[1].description

\* hours between the last save of the cache and the start of the current call
CacheAge == at_call.clock - at_call.cache.timestamp

\* the requests of the current call that delivered a page
DataPosts == SelectSeq(sent, LAMBDA r : r.outcome = "data")

IdsOf(ep) == {r.id : r \in ServerRecords(ep)}

\* C18: the cache is keyed by endpoint: a call answered from the cache gets the
\* tags that a fetch from its own endpoint saved, never those of another endpoint.
C18_CacheKeyedByEndpoint ==
    (pc = "returned" /\ sent = <<>>) =>
        /\ cache_source = endpoint
        /\ \A k \in 1..Len(all_tags) : all_tags[k].stash_id \in IdsOf(endpoint)

DeletedIds == {r.id : r \in {x \in UNION {ServerRecords(ep) : ep \in Endpoints} : x.deleted}}

\* C19: no record flagged deleted is among the tags query_all_tags collects and
\* returns, nor among the dicts it collects for the cache, nor in the cache file.
C19_DeletedNeverReturnedNorCached ==
    /\ \A k \in 1..Len(all_tags) : all_tags[k].stash_id \notin DeletedIds
    /\ \A k \in 1..Len(all_tag_dicts) : ~all_tag_dicts[k].deleted
    /\ \A k \in 1..Len(cache_file.tags) : ~cache_file.tags[k].deleted

\* a fetch that received deleted records on its first and on its second page
C19_Witness ==
    /\ pc = "returned"
    /\ endpoint = StashDBEndpoint
    /\ Len(sent) = 2
    /\ sent[1].outcome = "data" /\ sent[1].received = per_page
    /\ sent[2].outcome = "data" /\ sent[2].received = 1
    /\ all_tags = <<>>
    /\ cache_file = save_cache_file(<<>>, clock)

\* C20: a response that carries errors is the last request of the call: the call
\* raises at once and leaves the cache alone; a request is a retry only of a
\* request for the same page that ended in a timeout or connection failure.
C20_ErrorPayloadNotRetried ==
    /\ \A k \in 1..Len(sent) :
          sent[k].outcome = "errors" =>
              /\ k = Len(sent)
              /\ pc = "raised"
              /\ cache_file = at_call.cache
    /\ \A k \in 1..Len(sent) :
          sent[k].attempt > 0 =>
              /\ k > 1
              /\ sent[k - 1].outcome = "transient"
              /\ sent[k - 1].page = sent[k].page
              /\ sent[k - 1].attempt = sent[k].attempt - 1

\* a fetch that failed on an error response to its request for page 2
C20_Witness ==
    /\ pc = "raised"
    /\ Len(sent) = 2
    /\ sent[1].outcome = "data"
    /\ sent[2].outcome = "errors" /\ sent[2].page = 2 /\ sent[2].attempt = 0
    /\ cache_file = at_call.cache

\* C21: a run interrupted by the user during the apply phase returns partial
\* statistics that count exactly the items processed so far.
C21_InterruptReturnsPartialStats ==
    pc = "cancelled" =>
        /\ stats # NoStats
        /\ stats.created = Count(OkRequests("create"))
        /\ stats.updated = Count(OkRequests("update"))

\* the stash_id references a request of step b carries
SentRefs(r) == Range(r.stash_ids)

\* C25: the list sent in step b is the list of references the local tag carried
\* when the run read it, followed by one reference to the remote stash_id, which
\* was not among them; no reference a local tag carried is ever removed from the
\* store.
C25_AttachKeepsExistingStashIds ==
    /\ \A r \in Range(requests) :
          r.op = "stash_ids" =>
              LET before == Snapshot(r.id).stash_ids
              IN  /\ Len(r.stash_ids) = Len(before) + 1
                  /\ SubSeq(r.stash_ids, 1, Len(before)) = before
                  /\ r.stash_ids[Len(r.stash_ids)].endpoint = StashDBEndpoint
                  /\ r.stash_ids[Len(r.stash_ids)].stash_id \notin StashIdSet(before)
    /\ \A n \in DOMAIN existing_tags_by_name :
          LET old == existing_tags_by_name[n]
          IN  Range(old.stash_ids) \subseteq Range(store[old.id].stash_ids)

\* a finished run attached a StashDB id to a local tag that carries a reference
\* to another stash-box, and the tag now carries both
C25_Witness ==
    /\ pc = "done"
    /\ \E r \in Range(requests) :
          /\ r.op = "stash_ids" /\ r.ok
          /\ \E x \in Range(Snapshot(r.id).stash_ids) : x.endpoint # StashDBEndpoint
          /\ Len(store[r.id].stash_ids) = 2

\* C26: no remote tag whose lowercased name is a key of the local name index is
\* in the list handed to create_tags_batch, and no create request is sent for one.
C26_NoCreateForIndexedName ==
    /\ Stage3Passed =>
          \A k \in 1..Len(new_tags) :
              Lower(new_tags[k].name) \notin DOMAIN existing_tags_by_name
    /\ \A r \in Range(requests) :
          r.op = "create" => Lower(r.tag.name) \notin DOMAIN existing_tags_by_name

\* a finished run over two remote tags: the name of one is in the local index,
\* the other was created
C26_Witness ==
    /\ pc = "done"
    /\ Len(tags) = 2
    /\ \E k \in 1..Len(tags) : Lower(tags[k].name) \in DOMAIN existing_tags_by_name
    /\ Count(OkRequests("create")) = 1

\* stage 1 has looked at every remote tag whose stash_id is in the local index
Stage1Complete ==
    \A k \in 1..Len(tags) :
        MatchesByStashId(tags[k], existing_tags_by_stash_id) =>
            \E e \in evals : e.idx = k /\ e.stage = 1

\* stage 2 has looked at every remote tag whose name is in the local index
Stage2Complete ==
    \A k \in 1..Len(tags) :
        (tags[k].name # <<>> /\ Lower(tags[k].name) \in DOMAIN existing_tags_by_name) =>
            Lower(tags[k].name) \in matched_tags

\* C27: stage 2 evaluates a tag only after stage 1 has visited the whole remote
\* list, and a request reaches the store only after stage 1 and stage 2 have both
\* visited the whole list.
C27_StagesInOrder ==
    /\ (pc = "stage2" \/ \E e \in evals : e.stage = 2) => Stage1Complete
    /\ pc \in {"start", "stage1", "stage2"} => requests = <<>>
    /\ requests # <<>> => (Stage1Complete /\ Stage2Complete)

\* stage 2 is running over a list whose last tag was matched by stash_id
C27_Witness ==
    /\ pc = "stage2"
    /\ Len(tags) = 2
    /\ \E e \in evals : e.idx = 2 /\ e.stage = 1
    /\ \E e \in evals : e.idx = 1 /\ e.stage = 2

\* C28: no two tags of the list handed to create_tags_batch have names that are
\* equal case-insensitively.
C28_NewTagNamesDistinct ==
    Stage3Passed =>
        \A j, k \in 1..Len(new_tags) :
            j # k => Lower(new_tags[j].name) # Lower(new_tags[k].name)

\* C29: a remote tag matched in stage 1 or stage 2 is never in the list of new
\* tags and no create request is sent for it; a matched pair found in sync adds
\* no update entry, and the local tag is unchanged unless the entry of another
\* remote tag targets it.
C29_MatchedNeverCreated ==
    \A e \in evals :
        e.result # "skipped" =>
            /\ \A k \in 1..Len(new_tags) : new_tags[k] # tags[e.idx]
            /\ \A r \in Range(requests) : r.op = "create" => r.tag # tags[e.idx]
            /\ ~is_tag_out_of_sync(tags[e.idx], Snapshot(e.id), ignored_aliases) =>
                  /\ e.result = "insync"
                  /\ e.pos = 0
                  /\ (\A k \in 1..Len(tags_to_update) : tags_to_update[k].tag_id # e.id)
                        => store[e.id] = Snapshot(e.id)

\* a finished run that found one remote tag in sync with its local tag and
\* created another
C29_Witness ==
    /\ pc = "done"
    /\ \E e \in evals : e.result = "insync" /\ store[e.id] = Snapshot(e.id)
    /\ Count(OkRequests("create")) = 1

\* the requests of the current call that failed in transit and were retried
Retried == SelectSeq(sent, LAMBDA r : r.outcome = "transient" /\ r.attempt < 2)

\* C22: a page is requested at most 3 times; a timeout or connection failure on
\* the first or second attempt is followed by a sleep of 1s, then 2s, and
\* another attempt for the same page; on the third attempt it ends the call with
\* the error; a page that arrives is not requested again.
C22_TransientRetriedThrice ==
    /\ \A k \in 1..Len(sent) :
          /\ sent[k].attempt \in 0..2
          /\ sent[k].outcome = "transient" =>
                IF sent[k].attempt = 2
                THEN k = Len(sent) /\ pc = "raised"
                ELSE IF k = Len(sent)
                     THEN pc = "request" /\ page = sent[k].page
                                         /\ attempt = sent[k].attempt + 1
                     ELSE sent[k + 1].page = sent[k].page
                          /\ sent[k + 1].attempt = sent[k].attempt + 1
          /\ (sent[k].outcome = "data" /\ k < Len(sent)) =>
                sent[k + 1].page = sent[k].page + 1 /\ sent[k + 1].attempt = 0
    /\ Len(sleeps) = Len(Retried)
    /\ \A j \in 1..Len(sleeps) :
          sleeps[j] = IF Retried[j].attempt = 0 THEN 1 ELSE 2

\* a fetch that gave up after three timeouts on its first page
C22_Witness ==
    /\ pc = "raised"
    /\ Len(sent) = 3
    /\ \A k \in 1..3 : sent[k].outcome = "transient" /\ sent[k].page = 1
    /\ sleeps = <<1, 2>>

\* C23: the pages that arrive are pages 1, 2, 3, ... in order; a page of 100
\* records is followed by the request for the next page whatever count was
\* advertised; a page of fewer than 100 records is the last request of the
\* call, which returns.
C23_PagesInOrderUntilShort ==
    /\ \A k \in 1..Len(DataPosts) : DataPosts[k].page = k
    /\ sent # <<>> => sent[1].page = 1
    /\ \A k \in 1..Len(sent) :
          sent[k].outcome = "data" =>
              IF sent[k].received < 100
              THEN k = Len(sent) /\ pc = "returned"
              ELSE IF k = Len(sent)
                   THEN pc = "request" /\ page = sent[k].page + 1
                   ELSE sent[k + 1].page = sent[k].page + 1
    /\ (pc = "returned" /\ sent # <<>>) =>
          /\ sent[Len(sent)].outcome = "data"
          /\ sent[Len(sent)].received < 100

\* a fetch that was told a count of 0, received a full page and went on to the
\* short second page
C23_Witness ==
    /\ pc = "returned"
    /\ total_count = 0
    /\ Len(sent) = 2
    /\ sent[1].outcome = "data" /\ sent[1].page = 1 /\ sent[1].received = 100
    /\ sent[2].outcome = "data" /\ sent[2].page = 2 /\ sent[2].received = 1

\* C24: while a fetch is under way and after it has failed the cache file is
\* what it was when the call started; it is written when the call returns
\* after the last page.
C24_CacheWrittenOnlyAtEnd ==
    /\ pc \in {"request", "raised"} => cache_file = at_call.cache
    /\ (pc = "returned" /\ sent # <<>>) =>
          cache_file = save_cache_file(all_tag_dicts, clock)

\* a fetch that received a full first page and failed on the second, with an
\* older cache file in place
C24_Witness ==
    /\ pc = "raised"
    /\ at_call.cache # NoCache
    /\ at_call.cache.timestamp < clock
    /\ Len(DataPosts) = 1
    /\ Len(all_tag_dicts) = 100
    /\ cache_file = at_call.cache

\* the pages of scenes the loop has finished
PagesDone == scene_page - 1

\* C30: process_all terminates: every finished page raised processed_count by at
\* least one, the loop finishes at most total_with_stashids pages, and the call
\* returns.
C30_ProcessAllTerminates ==
    /\ [](PagesDone <= processed_count /\ PagesDone <= total_with_stashids)
    /\ [][pc = "for" /\ pc' = "while" => processed_count > PagesDone]_vars
    /\ <>(pc = "returned")

\* process_all returned after the server delivered more scenes than it counted
C30_Witness ==
    /\ pc = "returned"
    /\ PagesDone = 2
    /\ total_with_stashids = 3
    /\ processed_count = 4

====
